---- MODULE Spec2Model ----
(***************************************************************************)
(* Subtitle timeline reconstruction: srt_utils.parse_srt, merge_subtitles, *)
(* format_srt and audio_processing.combine_srt_files with its timestamp    *)
(* codec.                                                                  *)
(*                                                                         *)
(* SRT text is a sequence of tokens.  A token is a record [k, v]: a digit  *)
(* ("d", <<n>>), a non-digit, non-blank character ("c", <<code>>), a space *)
(* ("sp"), a newline ("nl"), the arrow "-->" ("arrow") or a timestamp      *)
(* HH:MM:SS,mmm ("ts", <<h, m, s, ms>>).  A timestamp string is the tuple  *)
(* of its four numeric fields; the codec converts it to and from integer   *)
(* milliseconds.                                                           *)
(***************************************************************************)
EXTENDS Integers, Sequences, FiniteSets, TLC

VARIABLES
  pc,                        \* "idle" | "loop" | "done"
  srt_files,                 \* the list given to combine_srt_files (sorted in place)
  input_files,               \* the list as the caller passed it (history)
  fs,                        \* files on disk: file name -> SRT text
  i,                         \* position of the segment loop in srt_files
  entries,                   \* entries parsed from the segment last read
  time_offset_ms,
  last_segment_end_time_ms,
  overall_subtitle_index,
  outfile,                   \* blocks written to the combined output file
  outfile_exists,            \* the combined output file exists on disk
  result,                    \* return value of combine_srt_files
  processed,                 \* file names in the order the loop reached them (history)
  call,                      \* a direct call of parse_srt / merge_subtitles / format_srt
  merging,                   \* a call of merge_subtitles, one loop iteration at a time
  doc,                       \* an SRT document and what parse_srt returns for it
  codec,                     \* a call of _ms_to_srt_time / _srt_time_to_ms
  job,                       \* a call of process_audio: position, files on disk, status messages
  gui                        \* AudioProcessorApp: button, worker thread, event loop, status queue

vars == <<pc, srt_files, input_files, fs, i, entries, time_offset_ms,
          last_segment_end_time_ms, overall_subtitle_index, outfile,
          outfile_exists, result, processed, call, merging, doc, codec, job, gui>>

combineLocals == <<i, entries, time_offset_ms, last_segment_end_time_ms,
                   overall_subtitle_index, outfile, outfile_exists, processed>>

-----------------------------------------------------------------------------
(* Bounds *)

MaxSegs == 3

MaxTotal == 3

MaxLen == 2

MaxMerge == 3

MaxDoc == 3

MaxJobSegs == 2

MaxJobs == 2

MaxStatus == 1

\* def merge_subtitles(entries, min_chars=45)
DefaultMinChars == 45

-----------------------------------------------------------------------------
(* Tokens and strings *)

NoV == <<>>

D(n) == [k |-> "d", v |-> <<n>>]

Ch(c) == [k |-> "c", v |-> <<c>>]

SP == [k |-> "sp", v |-> NoV]

NL == [k |-> "nl", v |-> NoV]

ARROW == [k |-> "arrow", v |-> NoV]

TS(t) == [k |-> "ts", v |-> t]

IsWs(t) == t.k \in {"sp", "nl"}

IsDigit(t) == t.k = "d"

\* the first character of the token is a decimal digit
StartsWithDigit(t) == t.k \in {"d", "ts"}

Max(a, b) == IF a >= b THEN a ELSE b

RECURSIVE SkipWs(_, _)
SkipWs(s, p) == IF p <= Len(s) /\ IsWs(s[p]) THEN SkipWs(s, p + 1) ELSE p

RECURSIVE SkipDigits(_, _)
SkipDigits(s, p) == IF p <= Len(s) /\ IsDigit(s[p]) THEN SkipDigits(s, p + 1) ELSE p

RECURSIVE BackWs(_, _)
BackWs(s, p) == IF p >= 1 /\ IsWs(s[p]) THEN BackWs(s, p - 1) ELSE p

\* str.rstrip()
RStrip(s) == SubSeq(s, 1, BackWs(s, Len(s)))

\* str.strip()
Strip(s) == LET r == RStrip(s) IN SubSeq(r, SkipWs(r, 1), Len(r))

RECURSIVE DigitsToInt(_)
DigitsToInt(ds) ==
  IF ds = <<>> THEN 0
  ELSE 10 * DigitsToInt(SubSeq(ds, 1, Len(ds) - 1)) + ds[Len(ds)].v[1]

RECURSIVE IntToDigits(_)
IntToDigits(n) ==
  IF n < 10 THEN <<D(n)>> ELSE IntToDigits(n \div 10) \o <<D(n % 10)>>

-----------------------------------------------------------------------------
(* Timestamp codec (audio_processing.py) *)

\* _srt_time_to_ms: "HH:MM:SS,mmm" -> milliseconds
srt_time_to_ms(time_str) ==
  time_str[1] * 3600000 + time_str[2] * 60000 + time_str[3] * 1000 + time_str[4]

\* the divmod chain with the minutes taken from the total instead of the remainder
MsToSrtTimeMinutesOfTotal(total_ms) ==
  LET t == IF total_ms < 0 THEN 0 ELSE total_ms
      rem2 == (t % 3600000) % 60000
  IN <<t \div 3600000, t \div 60000, rem2 \div 1000, rem2 % 1000>>

\* _ms_to_srt_time: milliseconds -> "HH:MM:SS,mmm" (negative clamped to 0)
ms_to_srt_time(total_ms) ==
  LET t == IF total_ms < 0 THEN 0 ELSE total_ms
      h == t \div 3600000
      rem1 == t % 3600000
      m == rem1 \div 60000
      rem2 == rem1 % 60000
  IN <<h, m, rem2 \div 1000, rem2 % 1000>>

\* the characters ':' ',' and '-'
COLON == Ch(58)

COMMA == Ch(44)

MINUS == Ch(45)

\* f"{n:02d}", f"{n:03d}": at least w digits, padded with zeros
RECURSIVE Pad(_, _)
Pad(ds, w) == IF Len(ds) >= w THEN ds ELSE Pad(<<D(0)>> \o ds, w)

\* _ms_to_srt_time, character by character: f"{h:02d}:{m:02d}:{s:02d},{ms:03d}"
_ms_to_srt_time(total_ms) ==
  LET f == ms_to_srt_time(total_ms)
  IN Pad(IntToDigits(f[1]), 2) \o <<COLON>> \o Pad(IntToDigits(f[2]), 2) \o <<COLON>>
       \o Pad(IntToDigits(f[3]), 2) \o <<COMMA>> \o Pad(IntToDigits(f[4]), 3)

\* position of the first sep in s from p on, Len(s) + 1 if there is none
RECURSIVE Find(_, _, _)
Find(s, sep, p) == IF p > Len(s) \/ s[p] = sep THEN p ELSE Find(s, sep, p + 1)

\* str.split(sep)
RECURSIVE Split(_, _)
Split(s, sep) ==
  LET p == Find(s, sep, 1)
  IN IF p > Len(s) THEN <<s>>
     ELSE <<SubSeq(s, 1, p - 1)>> \o Split(SubSeq(s, p + 1, Len(s)), sep)

\* int(x) for a string x: surrounding blanks and a minus sign are accepted
IntBody(x) ==
  LET t == Strip(x) IN IF t # <<>> /\ t[1] = MINUS THEN Tail(t) ELSE t

IntOk(x) == IntBody(x) # <<>> /\ \A p \in 1..Len(IntBody(x)) : IsDigit(IntBody(x)[p])

IntVal(x) ==
  LET t == Strip(x)
  IN IF t[1] = MINUS THEN 0 - DigitsToInt(IntBody(x)) ELSE DigitsToInt(IntBody(x))

\* a Python value handed to _srt_time_to_ms: a str with its characters, or not a str
Str(chars) == [type |-> "str", chars |-> chars]

NotStr(type) == [type |-> type, chars |-> <<>>]

\* the try body of _srt_time_to_ms: the value it returns or the exception it raises
TryDecode(time_str) ==
  LET parts == Split(time_str.chars, COLON)
      s_ms == Split(parts[3], COMMA)
      Raise(e) == [exc |-> e, value |-> 0]
  IN IF time_str.type # "str" THEN Raise("AttributeError")
     ELSE IF ~IntOk(parts[1]) THEN Raise("ValueError")
     ELSE IF Len(parts) < 2 THEN Raise("IndexError")
     ELSE IF ~IntOk(parts[2]) THEN Raise("ValueError")
     ELSE IF Len(parts) < 3 THEN Raise("IndexError")
     ELSE IF ~IntOk(s_ms[1]) THEN Raise("ValueError")
     ELSE IF Len(s_ms) < 2 THEN Raise("IndexError")
     ELSE IF ~IntOk(s_ms[2]) THEN Raise("ValueError")
     ELSE [exc |-> "none",
           value |-> IntVal(parts[1]) * 3600000 + IntVal(parts[2]) * 60000
                       + IntVal(s_ms[1]) * 1000 + IntVal(s_ms[2])]

\* _srt_time_to_ms, character by character: except Exception returns 0
_srt_time_to_ms(time_str) ==
  LET r == TryDecode(time_str)
  IN IF r.exc = "none" THEN [raised |-> FALSE, value |-> r.value]
     ELSE [raised |-> FALSE, value |-> 0]

-----------------------------------------------------------------------------
(* srt_utils.parse_srt *)

\* the token is text matched by \d{2}:\d{2}:\d{2},\d{3}
IsTimestamp(t) ==
  /\ t.k = "ts"
  /\ t.v[1] <= 99 /\ t.v[2] <= 99 /\ t.v[3] <= 99 /\ t.v[4] <= 999

\* the lookahead (?=\n\n\d+|\Z) holds at position r
Boundary(s, r) ==
  \/ r = Len(s) + 1
  \/ /\ r + 2 <= Len(s)
     /\ s[r].k = "nl" /\ s[r + 1].k = "nl"
     /\ StartsWithDigit(s[r + 2])

\* \s*(?=...) can match starting at q
CanEnd(s, q) == \E r \in q..SkipWs(s, q) : Boundary(s, r)

\* end of the lazy group ([\s\S]*?): the first q >= t where the rest matches
RECURSIVE TextEnd(_, _)
TextEnd(s, t) == IF CanEnd(s, t) THEN t ELSE TextEnd(s, t + 1)

\* end of the whole match: the greedy \s* gives back until the lookahead holds
MatchEnd(s, q) ==
  CHOOSE r \in q..SkipWs(s, q) :
    /\ Boundary(s, r)
    /\ \A r2 \in q..SkipWs(s, q) : Boundary(s, r2) => r2 <= r

\* pattern.match at position p of s.  (\d+) is a run of digit characters; when
\* the token at p is a timestamp written with an hour of three or more digits,
\* (\d+) takes the leading digits of the hour and the last two begin \d{2}:
MatchAt(s, p) ==
  LET wide == s[p].k = "ts" /\ s[p].v[1] >= 100
      d2 == SkipDigits(s, p)
      a == IF wide THEN p ELSE SkipWs(s, d2)
      b == SkipWs(s, a + 1)
      c == SkipWs(s, b + 1)
      t == SkipWs(s, c + 1)
      q == TextEnd(s, t)
      first == IF wide THEN TS(<<s[p].v[1] % 100, s[p].v[2], s[p].v[3], s[p].v[4]>>)
               ELSE s[a]
      ok == /\ wide \/ d2 > p
            /\ a <= Len(s) /\ IsTimestamp(first)
            /\ b <= Len(s) /\ s[b].k = "arrow"
            /\ c <= Len(s) /\ IsTimestamp(s[c])
  IN IF ok
     THEN [ok |-> TRUE, end |-> MatchEnd(s, q),
           entry |-> [index |-> IF wide THEN s[p].v[1] \div 100
                                ELSE DigitsToInt(SubSeq(s, p, d2 - 1)),
                      start |-> first.v, end |-> s[c].v,
                      text |-> Strip(SubSeq(s, t, q - 1))]]
     ELSE [ok |-> FALSE, end |-> p,
           entry |-> [index |-> 0, start |-> NoV, end |-> NoV, text |-> NoV]]

\* pattern.finditer from position p
RECURSIVE FindIter(_, _)
FindIter(s, p) ==
  IF p > Len(s) THEN <<>>
  ELSE LET m == MatchAt(s, p)
       IN IF m.ok THEN <<m.entry>> \o FindIter(s, m.end)
          ELSE FindIter(s, p + 1)

parse_srt(srt_string) == FindIter(Strip(srt_string), 1)

-----------------------------------------------------------------------------
(* srt_utils.merge_subtitles *)

\* number of characters of a token
TokLen(t) ==
  CASE t.k = "ts" -> 10 + Len(IntToDigits(t.v[1]))
    [] t.k = "arrow" -> 3
    [] OTHER -> 1

\* len(text)
RECURSIVE TextLen(_)
TextLen(text) ==
  IF text = <<>> THEN 0 ELSE TokLen(text[1]) + TextLen(Tail(text))

NewBlock(entry) ==
  [start |-> entry.start, end |-> entry.end, text |-> entry.text,
   char_count |-> TextLen(entry.text)]

\* the block appended to merged_entries when the current block is long enough
Finalized(current_block, entry) ==
  [start |-> current_block.start, end |-> entry.end, text |-> current_block.text]

\* the block appended after the loop
LastBlock(current_block) ==
  [start |-> current_block.start, end |-> current_block.end,
   text |-> current_block.text]

RECURSIVE MergeLoop(_, _, _, _, _)
MergeLoop(es, j, current_block, merged_entries, min_chars) ==
  IF j > Len(es) THEN merged_entries \o <<LastBlock(current_block)>>
  ELSE IF current_block.char_count < min_chars
       THEN LET combined_text == current_block.text \o es[j].text
            IN MergeLoop(es, j + 1,
                         [current_block EXCEPT !.end = es[j].end,
                                               !.text = combined_text,
                                               !.char_count = TextLen(combined_text)],
                         merged_entries, min_chars)
       ELSE MergeLoop(es, j + 1, NewBlock(es[j]),
                      merged_entries \o <<Finalized(current_block, es[j])>>,
                      min_chars)

merge_subtitles(es, min_chars) ==
  IF es = <<>> THEN <<>>
  ELSE MergeLoop(es, 2, NewBlock(es[1]), <<>>, min_chars)

\* the loop's decision read with <= : a block of exactly min_chars keeps growing
ShouldMergeInclusive(current_block, min_chars) == current_block.char_count <= min_chars

\* if current_text_len < min_chars
ShouldMerge(current_block, min_chars) == current_block.char_count < min_chars

\* a fold that forgets to move the block's end
FoldedKeepsEnd(current_block, entry) ==
  LET combined_text == current_block.text \o entry.text
  IN [current_block EXCEPT !.text = combined_text,
                           !.char_count = TextLen(combined_text)]

\* a fold that joins the texts with a space
FoldedWithSpace(current_block, entry) ==
  LET combined_text == current_block.text \o <<SP>> \o entry.text
  IN [current_block EXCEPT !.end = entry.end,
                           !.text = combined_text,
                           !.char_count = TextLen(combined_text)]

\* the current block after the entry is merged into it
Folded(current_block, entry) ==
  LET combined_text == current_block.text \o entry.text
  IN [current_block EXCEPT !.end = entry.end,
                           !.text = combined_text,
                           !.char_count = TextLen(combined_text)]

\* current_block = None
None == [start |-> <<>>, end |-> <<>>, text |-> <<>>, char_count |-> -1]

-----------------------------------------------------------------------------
(* srt_utils.format_srt *)

\* the text of one written block: index line, timestamp line, text, blank line
BlockText(b) ==
  IntToDigits(b.index) \o <<NL, TS(b.start), SP, ARROW, SP, TS(b.end), NL>>
    \o b.text \o <<NL, NL>>

RECURSIVE Flatten(_)
Flatten(blocks) ==
  IF blocks = <<>> THEN <<>> ELSE BlockText(blocks[1]) \o Flatten(Tail(blocks))

\* enumerate() without its start argument: indices from 0
FormatWritesFromZero(merged_entries) ==
  [j \in 1..Len(merged_entries) |->
     [index |-> j - 1,
      start |-> merged_entries[j].start,
      end |-> merged_entries[j].end,
      text |-> Strip(merged_entries[j].text)]]

\* the blocks format_srt writes to its StringIO
FormatWrites(merged_entries) ==
  [j \in 1..Len(merged_entries) |->
     [index |-> j,
      start |-> merged_entries[j].start,
      end |-> merged_entries[j].end,
      text |-> Strip(merged_entries[j].text)]]

format_srt(merged_entries) == RStrip(Flatten(FormatWrites(merged_entries))) \o <<NL>>

-----------------------------------------------------------------------------
(* audio_processing.combine_srt_files: the sort key and the sort *)

\* a file's base name: <stem><marker><digits><ext>, e.g. audio_ segment_ 001 .srt
FileName(stem, marker, digits, ext) ==
  [stem |-> stem, marker |-> marker, digits |-> digits, ext |-> ext]

\* re.IGNORECASE, on the spellings used here
Lower(str) ==
  CASE str = "SEGMENT_" -> "segment_"
    [] str = ".SRT" -> ".srt"
    [] OTHER -> str

\* float('inf')
Inf == [inf |-> TRUE, n |-> 0]

\* re.search(r'(?:segment_|segment|_min)(\d+)\.srt$', basename, re.IGNORECASE)
get_segment_number(filename) ==
  IF /\ Lower(filename.marker) \in {"segment_", "segment", "_min"}
     /\ filename.digits # <<>>
     /\ Lower(filename.ext) = ".srt"
  THEN [inf |-> FALSE, n |-> DigitsToInt(filename.digits)]
  ELSE Inf

\* a sort key order that puts files without an ordinal first
KeyLessInfFirst(a, b) ==
  \/ a.inf /\ ~b.inf
  \/ ~a.inf /\ ~b.inf /\ a.n < b.n

\* a < b on sort keys (int or inf)
KeyLess(a, b) ==
  \/ ~a.inf /\ b.inf
  \/ ~a.inf /\ ~b.inf /\ a.n < b.n

\* insert x behind every element whose key is not greater (keeps the sort stable)
RECURSIVE InsertByKey(_, _)
InsertByKey(sorted, x) ==
  IF sorted = <<>> THEN <<x>>
  ELSE IF KeyLess(get_segment_number(x), get_segment_number(sorted[1]))
       THEN <<x>> \o sorted
       ELSE <<sorted[1]>> \o InsertByKey(Tail(sorted), x)

\* list.sort(key=get_segment_number): ascending and stable
RECURSIVE SortFiles(_)
SortFiles(files) ==
  IF files = <<>> THEN <<>>
  ELSE InsertByKey(SortFiles(SubSeq(files, 1, Len(files) - 1)), files[Len(files)])

-----------------------------------------------------------------------------
(* audio_processing.combine_srt_files: one segment *)

\* the threshold test written with <= : a first start of exactly 1000 ms resets
SegmentOffsetInclusive(first_entry_start_ms, last_end) ==
  IF first_entry_start_ms <= 1000 THEN last_end ELSE 0

\* the reset heuristic: the offset for a segment whose first entry starts at first_ms
SegmentOffset(first_entry_start_ms, last_end) ==
  IF first_entry_start_ms < 1000 THEN last_end ELSE 0

\* the validity test with the comparison reversed
InvalidReversed(new_start_ms, new_end_ms) == new_start_ms <= new_end_ms

\* the entry is skipped: invalid time after offset
Invalid(new_start_ms, new_end_ms) == new_start_ms >= new_end_ms

\* the loop over the entries of one segment, from entry j on.
\* acc = [blocks written, next index, segment_max_end_time_current_segment]
RECURSIVE EntryLoop(_, _, _, _)
EntryLoop(es, j, offset, acc) ==
  IF j > Len(es) THEN acc
  ELSE LET new_start_ms == srt_time_to_ms(es[j].start) + offset
           new_end_ms == srt_time_to_ms(es[j].end) + offset
       IN IF Invalid(new_start_ms, new_end_ms)
          THEN EntryLoop(es, j + 1, offset, acc)
          ELSE EntryLoop(es, j + 1, offset,
                 [blocks |-> Append(acc.blocks,
                                [index |-> acc.index,
                                 start |-> ms_to_srt_time(new_start_ms),
                                 end |-> ms_to_srt_time(new_end_ms),
                                 text |-> Strip(es[j].text)]),
                  index |-> acc.index + 1,
                  max_end |-> Max(acc.max_end, new_end_ms)])

\* last_segment_end_time_ms after a segment whose loop ended with max_end
NextLastEnd(last_end, max_end) == max_end

\* combine_srt_files as process_audio calls it: the loop over the files from
\* file j on, returning the blocks written to the output file
RECURSIVE CombineLoop(_, _, _, _, _, _)
CombineLoop(files, disk, j, last_end, index, blocks) ==
  IF j > Len(files) THEN blocks
  ELSE IF files[j] \notin DOMAIN disk
       THEN CombineLoop(files, disk, j + 1, last_end, index, blocks)
       ELSE LET es == parse_srt(disk[files[j]])
            IN IF es = <<>>
               THEN CombineLoop(files, disk, j + 1, last_end, index, blocks)
               ELSE LET offset == SegmentOffset(srt_time_to_ms(es[1].start), last_end)
                        done == EntryLoop(es, 1, offset,
                                          [blocks |-> blocks, index |-> index, max_end |-> 0])
                    IN CombineLoop(files, disk, j + 1,
                                   NextLastEnd(last_end, done.max_end),
                                   done.index, done.blocks)

\* the text combine_srt_files leaves in output_filepath
CombinedText(files, disk) ==
  Flatten(CombineLoop(SortFiles(files), disk, 1, 0, 1, <<>>))

-----------------------------------------------------------------------------
(* audio_processing.format_timestamp and process_audio_segment *)

\* a time in seconds is a whole number of ticks of 0.1 ms
\* round(seconds * 1000.0): to the nearest millisecond, ties to even
RoundMs(ticks) ==
  LET q == ticks \div 10
      r == ticks % 10
  IN IF r > 5 \/ (r = 5 /\ q % 2 = 1) THEN q + 1 ELSE q

\* format_timestamp(seconds) -> "HH:MM:SS,mmm"
format_timestamp(seconds) ==
  LET milliseconds == RoundMs(IF seconds < 0 THEN 0 ELSE seconds)
      hours == milliseconds \div (3600 * 1000)
      ms1 == milliseconds - hours * (3600 * 1000)
      minutes == ms1 \div (60 * 1000)
      ms2 == ms1 - minutes * (60 * 1000)
      seconds_part == ms2 \div 1000
  IN <<hours, minutes, seconds_part, ms2 - seconds_part * 1000>>

\* the loop over the segments of a response, from segment j on: the blocks
\* appended to srt_content_parts
RECURSIVE SegmentLoop(_, _, _)
SegmentLoop(segments, j, srt_index) ==
  IF j > Len(segments) THEN <<>>
  ELSE LET segment == segments[j]
           text == Strip(segment.text)
       IN IF segment.start >= segment.end \/ text = <<>>
          THEN SegmentLoop(segments, j + 1, srt_index)
          ELSE <<[index |-> srt_index,
                  start |-> format_timestamp(segment.start),
                  end |-> format_timestamp(segment.end),
                  text |-> text]>>
                 \o SegmentLoop(segments, j + 1, srt_index + 1)

\* process_audio_segment on the service's response: the SRT text it writes
\* (written = TRUE, the path is returned) or None; txt = the plain-text
\* fallback file is written
process_audio_segment(response) ==
  LET NoSrt(txt) == [written |-> FALSE, text |-> <<>>, txt |-> txt]
  IN IF response.kind = "error" THEN NoSrt(FALSE)
     ELSE IF response.kind = "no_segments" THEN NoSrt(response.plain_text)
     ELSE LET srt_content == Strip(Flatten(SegmentLoop(response.segments, 1, 1)))
          IN IF srt_content = <<>> THEN NoSrt(FALSE)
             ELSE [written |-> TRUE, text |-> srt_content \o <<NL>>, txt |-> FALSE]

\* step 5 of process_audio on the text of the raw combined file: the text written
\* to the lengthened file, or nothing when parse_srt returns no entry
Lengthened(raw_srt_content) ==
  LET parsed_data == parse_srt(raw_srt_content)
  IN IF parsed_data = <<>> THEN [written |-> FALSE, text |-> <<>>]
     ELSE [written |-> TRUE,
           text |-> format_srt(merge_subtitles(parsed_data, DefaultMinChars))]

-----------------------------------------------------------------------------
(* Inputs *)

SeqsUpTo(S, n) == UNION {[1..m -> S] : m \in 0..n}

Range(f) == {f[x] : x \in DOMAIN f}

\* (start, end) pairs: a reset start (999 ms), a start on the threshold
\* (1000 ms) and an inverted interval (5000 -> 4000)
Intervals ==
  { <<<<0, 0, 0, 999>>, <<0, 0, 4, 0>>>>,
    <<<<0, 0, 1, 0>>, <<0, 0, 3, 0>>>>,
    <<<<0, 0, 5, 0>>, <<0, 0, 4, 0>>>> }

\* the (start, end, text) blocks a segment file may hold
SegBlocks == {[index |-> 1, start |-> iv[1], end |-> iv[2], text |-> <<Ch(1)>>] : iv \in Intervals}

\* the text of an SRT file holding the given blocks, numbered from 1
SrtText(blocks) ==
  RStrip(Flatten([j \in 1..Len(blocks) |-> [blocks[j] EXCEPT !.index = j]])) \o <<NL>>

\* the k-th segment file as process_audio names it: <base>_segment_00k.srt
SegName(k) == FileName("audio_", "segment_", <<D(0), D(0), D(k)>>, ".srt")

\* file names given to combine_srt_files directly
SortNames ==
  { FileName("a_", "segment_", <<D(0), D(0), D(2)>>, ".srt"),
    FileName("b", "_min", <<D(1), D(0)>>, ".srt"),
    FileName("c", "SEGMENT_", <<D(2)>>, ".SRT"),
    FileName("d_", "part", <<D(1)>>, ".srt"),
    FileName("e_", "segment_", <<>>, ".srt"),
    FileName("f_", "segment", <<D(1)>>, ".txt") }

\* entries handed to merge_subtitles and format_srt directly
CallTexts == { <<>>, <<Ch(1)>>, <<Ch(1), SP, Ch(2), SP>> }

CallEntries ==
  {[index |-> 7, start |-> iv[1], end |-> iv[2], text |-> t] :
     iv \in {<<<<0, 0, 1, 0>>, <<0, 0, 3, 0>>>>, <<<<0, 0, 5, 0>>, <<0, 0, 4, 0>>>>},
     t \in CallTexts}

MinChars == {2, 45}

\* number of blocks in the files of the list from position j on
RECURSIVE BlocksOnDisk(_, _, _)
BlocksOnDisk(files, disk, j) ==
  IF j > Len(files) THEN 0
  ELSE (IF files[j] \in DOMAIN disk
        THEN Cardinality({p \in 1..Len(disk[files[j]]) : disk[files[j]][p].k = "arrow"})
        ELSE 0) + BlocksOnDisk(files, disk, j + 1)

WriteFile(disk, name, text) ==
  [x \in DOMAIN disk \cup {name} |-> IF x = name THEN text ELSE disk[x]]

NoCall == [fn |-> "none", arg |-> <<>>, min_chars |-> 0, ret |-> <<>>, writes |-> <<>>]

\* texts of 0, 1, 2, 5 and 45 characters handed to merge_subtitles
MergeTexts ==
  { <<>>,
    <<Ch(1)>>,
    <<Ch(2), Ch(3)>>,
    <<Ch(4), Ch(5), SP, Ch(6), Ch(7)>>,
    [c \in 1..DefaultMinChars |-> Ch(8)] }

\* the j-th entry of a list: cue j runs from second 2j-1 to second 2j
MergeEntry(j, text) ==
  [index |-> j, start |-> <<0, 0, 2 * j - 1, 0>>, end |-> <<0, 0, 2 * j, 0>>,
   text |-> text]

MergeInputs ==
  {[j \in 1..Len(texts) |-> MergeEntry(j, texts[j])] : texts \in SeqsUpTo(MergeTexts, MaxMerge)}

MergeMinChars == {1, 2, 3, DefaultMinChars}

\* no document parsed yet
NoDoc == [fn |-> "none", blocks |-> <<>>, text |-> <<>>, ret |-> <<>>]

\* what a block of a hand-written SRT document may look like: well formed with
\* one or two lines of text, index and timestamp line without text, a word
\* for the index line, a word for the start timestamp
DocShapes ==
  { [kind |-> "ok", text |-> <<Ch(1)>>],
    [kind |-> "ok", text |-> <<Ch(1), NL, Ch(2)>>],
    [kind |-> "notext", text |-> <<>>],
    [kind |-> "badindex", text |-> <<Ch(9)>>],
    [kind |-> "badts", text |-> <<Ch(9)>>] }

\* the j-th block of a document: numbered j, from second 2j-1 to second 2j
DocBlock(j, shape) ==
  [kind |-> shape.kind, index |-> j, start |-> <<0, 0, 2 * j - 1, 0>>,
   end |-> <<0, 0, 2 * j, 0>>, text |-> shape.text]

DocInputs ==
  {[j \in 1..Len(shapes) |-> DocBlock(j, shapes[j])] : shapes \in SeqsUpTo(DocShapes, MaxDoc)}

\* the characters of one block, blank line included
DocBlockText(b) ==
  (IF b.kind = "badindex" THEN <<Ch(8)>> ELSE IntToDigits(b.index))
    \o <<NL, IF b.kind = "badts" THEN Ch(8) ELSE TS(b.start), SP, ARROW, SP, TS(b.end), NL>>
    \o (IF b.kind = "notext" THEN <<NL>> ELSE b.text \o <<NL, NL>>)

RECURSIVE DocText(_)
DocText(blocks) ==
  IF blocks = <<>> THEN <<>> ELSE DocBlockText(blocks[1]) \o DocText(Tail(blocks))

\* entries that meet the data model: start before end, trimmed text without a
\* blank line, canonical timestamps, hours of two and of three digits
RoundTripEntries ==
  {[start |-> iv[1], end |-> iv[2], text |-> t] :
     iv \in { <<<<0, 0, 1, 0>>, <<0, 0, 2, 500>>>>,
              <<<<99, 59, 59, 999>>, <<100, 0, 0, 0>>>>,
              <<<<100, 0, 0, 0>>, <<100, 0, 1, 0>>>> },
     t \in { <<Ch(1)>>, <<Ch(1), SP, Ch(2), NL, D(3)>> }}

\* millisecond counts below 24 hours: every field at its least and greatest
\* value, and on both sides of a change in the number of digits
CodecMs ==
  {h * 3600000 + m * 60000 + sec * 1000 + ms :
     h \in {0, 1, 23}, m \in {0, 9, 59}, sec \in {0, 10, 59}, ms \in {0, 9, 10, 99, 100, 999}}

\* field texts of a time string: "01", "x", "" and "-1"
CodecFields == { <<D(0), D(1)>>, <<Ch(120)>>, <<>>, <<MINUS, D(1)>> }

\* pieces[1] sep pieces[2] sep ... : sep.join(pieces)
RECURSIVE Join(_, _)
Join(pieces, sep) ==
  IF Len(pieces) = 1 THEN pieces[1]
  ELSE pieces[1] \o <<sep>> \o Join(Tail(pieces), sep)

\* values handed to _srt_time_to_ms: strings of one to four colon fields whose
\* third field has one to three comma fields, and two values that are not strings
CodecInputs ==
  {Str(Join(parts, COLON)) : parts \in [1..1 -> CodecFields] \cup [1..2 -> CodecFields]}
    \cup {Str(Join(<<a, b, Join(c, COMMA)>> \o rest, COLON)) :
            a \in CodecFields, b \in {<<D(0), D(1)>>, <<Ch(120)>>},
            c \in [1..1 -> CodecFields] \cup [1..2 -> CodecFields] \cup [1..3 -> CodecFields],
            rest \in {<<>>, << <<D(0), D(1)>> >>}}
    \cup {NotStr("NoneType"), NotStr("int")}

\* no codec call made yet
NoCodec == [fn |-> "none", arg |-> 0, text |-> <<>>, ret |-> [raised |-> FALSE, value |-> 0]]

\* a file on disk with its text, and a path where there is no file
File(text) == [exists |-> TRUE, text |-> text]

Absent == [exists |-> FALSE, text |-> <<>>]

\* what is at output_srt_filepath before process_audio is called
OldOutputs == {Absent, File(<<Ch(0)>>)}

\* segments of a transcription response; times in ticks of 0.1 ms:
\* 1.0 s -> 2.0 s, and 1.0001 s -> 1.0004 s (start < end, equal after rounding)
ApiSegment(start, end, text) == [start |-> start, end |-> end, text |-> text]

\* what the transcription service does for one audio segment: the request
\* fails, the response has no segment list (with or without plain text), or it
\* has a list: one good segment, one segment shorter than a millisecond, only
\* segments that are skipped (start >= end, blank text)
JobResponses ==
  { [kind |-> "error", plain_text |-> FALSE, segments |-> <<>>],
    [kind |-> "no_segments", plain_text |-> TRUE, segments |-> <<>>],
    [kind |-> "segments", plain_text |-> TRUE,
     segments |-> <<ApiSegment(10000, 20000, <<Ch(1)>>)>>],
    [kind |-> "segments", plain_text |-> TRUE,
     segments |-> <<ApiSegment(10001, 10004, <<Ch(2)>>)>>],
    [kind |-> "segments", plain_text |-> TRUE,
     segments |-> <<ApiSegment(20000, 10000, <<Ch(3)>>), ApiSegment(10000, 20000, <<SP>>)>>] }

\* the three delete_* flags of process_audio
JobFlags ==
  { [delete_segments_flag |-> f, delete_temp_audio_flag |-> f, delete_segment_srts_flag |-> f] :
      f \in BOOLEAN }

\* kinds of file whose os.remove may fail during cleanup
Removable == {"segment_mp3", "segment_srt", "temp_raw", "temp_len"}

\* no call of process_audio yet
NoJob ==
  [pc |-> "idle", ret |-> "pending",
   input_kind |-> "none", lengthen_subtitles_flag |-> FALSE,
   flags |-> [delete_segments_flag |-> FALSE, delete_temp_audio_flag |-> FALSE,
              delete_segment_srts_flag |-> FALSE],
   is_downloaded |-> FALSE,
   generated_segment_files |-> <<>>, generated_segment_srt_files |-> <<>>,
   k |-> 0, transcribed |-> <<>>,
   mp3 |-> {}, txt |-> {}, srts |-> <<>>, downloaded |-> FALSE,
   output |-> Absent, old_output |-> Absent, temp_raw |-> Absent, temp_len |-> Absent,
   final_srt_to_rename |-> "temp_raw", renamed_from |-> "none",
   status |-> <<>>]

\* AudioProcessorApp after __init__: the window exists, Start is enabled, the
\* queue is empty and no worker thread was started.  after holds the callbacks
\* scheduled with root.after(0, ...); threads holds one record per Thread
\* started; enqueued and appended are histories of status_queue.put and of the
\* inserts made by check_status_queue.
NoGui ==
  [root |-> TRUE, start_button |-> "normal", status_queue |-> <<>>,
   status_text |-> <<>>, after |-> <<>>, threads |-> <<>>,
   messagebox |-> "none", enqueued |-> <<>>, appended |-> <<>>, reenabled |-> 0]

\* no call of merge_subtitles in progress
NoMerge ==
  [pc |-> "idle", entries |-> <<>>, min_chars |-> 0, k |-> 0, current_block |-> None,
   merged_entries |-> <<>>, pass |-> 0, input |-> <<>>, first |-> <<>>]

-----------------------------------------------------------------------------
(* State machine *)

Init ==
  /\ pc = "idle"
  /\ srt_files = <<>>
  /\ input_files = <<>>
  /\ fs = <<>>
  /\ i = 0
  /\ entries = <<>>
  /\ time_offset_ms = 0
  /\ last_segment_end_time_ms = 0
  /\ overall_subtitle_index = 0
  /\ outfile = <<>>
  /\ outfile_exists = FALSE
  /\ result = "pending"
  /\ processed = <<>>
  /\ call = NoCall
  /\ merging = NoMerge
  /\ doc = NoDoc
  /\ codec = NoCodec
  /\ job = NoJob
  /\ gui = NoGui

\* combine_srt_files called directly with any list of names, each file holding one block
InitSort ==
  /\ pc = "idle"
  /\ srt_files \in SeqsUpTo(SortNames, MaxSegs)
  /\ input_files = <<>>
  /\ fs = [n \in Range(srt_files) |->
             SrtText(<<[index |-> 1, start |-> <<0, 0, 0, 0>>, end |-> <<0, 0, 1, 0>>,
                        text |-> <<Ch(1)>>]>>)]
  /\ i = 0
  /\ entries = <<>>
  /\ time_offset_ms = 0
  /\ last_segment_end_time_ms = 0
  /\ overall_subtitle_index = 0
  /\ outfile = <<>>
  /\ outfile_exists = FALSE
  /\ result = "pending"
  /\ processed = <<>>
  /\ call = NoCall
  /\ merging = NoMerge
  /\ doc = NoDoc
  /\ codec = NoCodec
  /\ job = NoJob
  /\ gui = NoGui

\* the caller lists one more segment file, present on disk or missing
AddSegment ==
  /\ pc = "idle"
  /\ Len(srt_files) < MaxSegs
  /\ LET name == SegName(Len(srt_files) + 1)
         room == MaxTotal - BlocksOnDisk(srt_files, fs, 1)
     IN /\ srt_files' = Append(srt_files, name)
        /\ \/ fs' = fs
           \/ \E blocks \in SeqsUpTo(SegBlocks, room) :
                fs' = WriteFile(fs, name, SrtText(blocks))
  /\ UNCHANGED <<pc, input_files, combineLocals, result, call>>
  /\ UNCHANGED <<merging, doc, codec, job, gui>>

\* if not srt_files: return None
CombineEmpty ==
  /\ pc = "idle"
  /\ srt_files = <<>>
  /\ call.fn = "none"
  /\ pc' = "done"
  /\ result' = "None"
  /\ call' = [NoCall EXCEPT !.fn = "combine_srt_files"]
  /\ UNCHANGED <<srt_files, input_files, fs, combineLocals>>
  /\ UNCHANGED <<merging, doc, codec, job, gui>>

\* sort, then open(output_filepath, 'w') raises: the outer handler returns None
CombineOpenFails ==
  /\ pc = "idle"
  /\ srt_files # <<>>
  /\ input_files' = srt_files
  /\ srt_files' = SortFiles(srt_files)
  /\ pc' = "done"
  /\ result' = "None"
  /\ call' = [NoCall EXCEPT !.fn = "combine_srt_files"]
  /\ UNCHANGED <<fs, combineLocals>>
  /\ UNCHANGED <<merging, doc, codec, job, gui>>

\* sort, open the output file, initialise the counters
CombineStart ==
  /\ pc = "idle"
  /\ srt_files # <<>>
  /\ input_files' = srt_files
  /\ srt_files' = SortFiles(srt_files)
  /\ outfile_exists' = TRUE
  /\ outfile' = <<>>
  /\ overall_subtitle_index' = 1
  /\ time_offset_ms' = 0
  /\ last_segment_end_time_ms' = 0
  /\ i' = 1
  /\ pc' = "loop"
  /\ call' = [NoCall EXCEPT !.fn = "combine_srt_files"]
  /\ UNCHANGED <<fs, entries, result, processed>>
  /\ UNCHANGED <<merging, doc, codec, job, gui>>

\* the file is missing: continue
SkipMissing ==
  /\ pc = "loop"
  /\ i <= Len(srt_files)
  /\ srt_files[i] \notin DOMAIN fs
  /\ i' = i + 1
  /\ processed' = Append(processed, srt_files[i])
  /\ UNCHANGED <<pc, srt_files, input_files, fs, entries, time_offset_ms,
                 last_segment_end_time_ms, overall_subtitle_index, outfile,
                 outfile_exists, result, call>>
  /\ UNCHANGED <<merging, doc, codec, job, gui>>

\* the empty segment's maximum end time (0) assigned before the continue
SkipEmptyResetsLastEnd ==
  /\ pc = "loop"
  /\ i <= Len(srt_files)
  /\ srt_files[i] \in DOMAIN fs
  /\ parse_srt(fs[srt_files[i]]) = <<>>
  /\ entries' = <<>>
  /\ last_segment_end_time_ms' = 0
  /\ i' = i + 1
  /\ processed' = Append(processed, srt_files[i])
  /\ UNCHANGED <<pc, srt_files, input_files, fs, time_offset_ms,
                 overall_subtitle_index, outfile, outfile_exists, result, call>>
  /\ UNCHANGED <<merging, doc, codec, job, gui>>

\* parse_srt returns no entry: continue
SkipEmpty ==
  /\ pc = "loop"
  /\ i <= Len(srt_files)
  /\ srt_files[i] \in DOMAIN fs
  /\ parse_srt(fs[srt_files[i]]) = <<>>
  /\ entries' = <<>>
  /\ i' = i + 1
  /\ processed' = Append(processed, srt_files[i])
  /\ UNCHANGED <<pc, srt_files, input_files, fs, time_offset_ms,
                 last_segment_end_time_ms, overall_subtitle_index, outfile,
                 outfile_exists, result, call>>
  /\ UNCHANGED <<merging, doc, codec, job, gui>>

\* detect a reset, shift and write the entries, update last_segment_end_time_ms
CombineSegment ==
  /\ pc = "loop"
  /\ i <= Len(srt_files)
  /\ srt_files[i] \in DOMAIN fs
  /\ LET es == parse_srt(fs[srt_files[i]])
     IN /\ es # <<>>
        /\ LET offset == SegmentOffset(srt_time_to_ms(es[1].start),
                                       last_segment_end_time_ms)
               done == EntryLoop(es, 1, offset,
                                 [blocks |-> outfile,
                                  index |-> overall_subtitle_index,
                                  max_end |-> 0])
           IN /\ entries' = es
              /\ time_offset_ms' = offset
              /\ outfile' = done.blocks
              /\ overall_subtitle_index' = done.index
              /\ last_segment_end_time_ms' =
                   NextLastEnd(last_segment_end_time_ms, done.max_end)
  /\ i' = i + 1
  /\ processed' = Append(processed, srt_files[i])
  /\ UNCHANGED <<pc, srt_files, input_files, fs, outfile_exists, result, call>>
  /\ UNCHANGED <<merging, doc, codec, job, gui>>

\* the loop is over: return output_filepath
CombineReturn ==
  /\ pc = "loop"
  /\ i > Len(srt_files)
  /\ pc' = "done"
  /\ result' = "output_filepath"
  /\ UNCHANGED <<srt_files, input_files, fs, combineLocals, call>>
  /\ UNCHANGED <<merging, doc, codec, job, gui>>

\* parse_srt(srt_string)
ParseCall ==
  /\ pc = "idle"
  /\ srt_files = <<>>
  /\ \E blocks \in SeqsUpTo(CallEntries, MaxLen) :
       LET text == SrtText(blocks)
       IN call' = [NoCall EXCEPT !.fn = "parse_srt", !.arg = text,
                                 !.ret = parse_srt(text)]
  /\ pc' = "done"
  /\ UNCHANGED <<srt_files, input_files, fs, combineLocals, result>>
  /\ UNCHANGED <<merging, doc, codec, job, gui>>

\* merge_subtitles(entries, min_chars)
MergeCall ==
  /\ pc = "idle"
  /\ srt_files = <<>>
  /\ \E es \in SeqsUpTo(CallEntries, MaxLen), min_chars \in MinChars :
       call' = [NoCall EXCEPT !.fn = "merge_subtitles", !.arg = es,
                              !.min_chars = min_chars,
                              !.ret = merge_subtitles(es, min_chars)]
  /\ pc' = "done"
  /\ UNCHANGED <<srt_files, input_files, fs, combineLocals, result>>
  /\ UNCHANGED <<merging, doc, codec, job, gui>>

\* format_srt(merged_entries)
FormatCall ==
  /\ pc = "idle"
  /\ srt_files = <<>>
  /\ \E es \in SeqsUpTo(CallEntries, MaxLen) :
       call' = [NoCall EXCEPT !.fn = "format_srt", !.arg = es,
                              !.ret = format_srt(es),
                              !.writes = FormatWrites(es)]
  /\ pc' = "done"
  /\ UNCHANGED <<srt_files, input_files, fs, combineLocals, result>>
  /\ UNCHANGED <<merging, doc, codec, job, gui>>

otherVars == <<pc, srt_files, input_files, fs, combineLocals, result, call>>

\* merge_subtitles(entries, min_chars) is entered: merged_entries = [], current_block = None;
\* an empty list returns [] at once
MergeEnter ==
  /\ merging.pc = "idle"
  /\ \E es \in MergeInputs, min_chars \in MergeMinChars :
       merging' = [NoMerge EXCEPT !.pc = IF es = <<>> THEN "done" ELSE "loop",
                                  !.entries = es, !.min_chars = min_chars, !.k = 1,
                                  !.pass = 1, !.input = es]
  /\ UNCHANGED <<otherVars, doc, codec, job, gui>>

\* loop body, current_block is None: the entry starts the first block
MergeSeed ==
  /\ merging.pc = "loop"
  /\ merging.k <= Len(merging.entries)
  /\ merging.current_block = None
  /\ merging' = [merging EXCEPT !.current_block = NewBlock(merging.entries[merging.k]),
                                !.k = merging.k + 1]
  /\ UNCHANGED <<otherVars, doc, codec, job, gui>>

\* loop body, the current block is still short: the entry is merged into it
MergeFold ==
  /\ merging.pc = "loop"
  /\ merging.k <= Len(merging.entries)
  /\ merging.current_block # None
  /\ ShouldMerge(merging.current_block, merging.min_chars)
  /\ merging' = [merging EXCEPT
                   !.current_block = Folded(merging.current_block, merging.entries[merging.k]),
                   !.k = merging.k + 1]
  /\ UNCHANGED <<otherVars, doc, codec, job, gui>>

\* loop body, the current block is long enough: it is appended and the entry
\* starts a new block
MergeFlush ==
  /\ merging.pc = "loop"
  /\ merging.k <= Len(merging.entries)
  /\ merging.current_block # None
  /\ ~ShouldMerge(merging.current_block, merging.min_chars)
  /\ merging' = [merging EXCEPT
                   !.merged_entries =
                      Append(merging.merged_entries,
                             Finalized(merging.current_block, merging.entries[merging.k])),
                   !.current_block = NewBlock(merging.entries[merging.k]),
                   !.k = merging.k + 1]
  /\ UNCHANGED <<otherVars, doc, codec, job, gui>>

\* a return that forgets the block still open after the loop
MergeReturnDropsLast ==
  /\ merging.pc = "loop"
  /\ merging.k > Len(merging.entries)
  /\ merging' = [merging EXCEPT !.pc = "done"]
  /\ UNCHANGED <<otherVars, doc, codec, job, gui>>

\* after the loop: the remaining block is appended, merged_entries is returned
MergeReturn ==
  /\ merging.pc = "loop"
  /\ merging.k > Len(merging.entries)
  /\ merging' = [merging EXCEPT
                   !.pc = "done",
                   !.merged_entries =
                      IF merging.current_block # None
                      THEN Append(merging.merged_entries, LastBlock(merging.current_block))
                      ELSE merging.merged_entries]
  /\ UNCHANGED <<otherVars, doc, codec, job, gui>>

\* merge_subtitles is called again on the list it returned, with the same min_chars
MergeAgain ==
  /\ merging.pc = "done"
  /\ merging.pass = 1
  /\ merging' = [merging EXCEPT
                   !.pc = IF merging.merged_entries = <<>> THEN "done" ELSE "loop",
                   !.entries = merging.merged_entries, !.k = 1,
                   !.current_block = None, !.merged_entries = <<>>,
                   !.pass = 2, !.first = merging.merged_entries]
  /\ UNCHANGED <<otherVars, doc, codec, job, gui>>

Next ==
  \/ AddSegment
  \/ CombineEmpty
  \/ CombineOpenFails
  \/ CombineStart
  \/ SkipMissing
  \/ SkipEmpty
  \/ CombineSegment
  \/ CombineReturn
  \/ ParseCall
  \/ MergeCall
  \/ FormatCall

Spec == Init /\ [][Next]_vars

SpecSort == InitSort /\ [][Next]_vars

\* parse_srt(srt_string) on a hand-written document
ParseDoc ==
  /\ doc.fn = "none"
  /\ \E blocks \in DocInputs :
       LET text == DocText(blocks)
       IN doc' = [fn |-> "parse_srt", blocks |-> blocks, text |-> text,
                  ret |-> parse_srt(text)]
  /\ UNCHANGED <<otherVars, merging, codec, job, gui>>

\* parse_srt(format_srt(entries))
RoundTrip ==
  /\ doc.fn = "none"
  /\ \E es \in SeqsUpTo(RoundTripEntries, MaxDoc) :
       LET text == format_srt(es)
       IN doc' = [fn |-> "round_trip", blocks |-> es, text |-> text,
                  ret |-> parse_srt(text)]
  /\ UNCHANGED <<otherVars, merging, codec, job, gui>>

NextParse ==
  \/ ParseDoc
  \/ RoundTrip

\* parse_srt alone, on documents written by hand and by format_srt
SpecParse == Init /\ [][NextParse]_vars

\* _srt_time_to_ms(_ms_to_srt_time(m))
CodecRoundTrip ==
  /\ codec.fn = "none"
  /\ \E m \in CodecMs :
       LET text == _ms_to_srt_time(m)
       IN codec' = [fn |-> "round_trip", arg |-> m, text |-> text,
                    ret |-> _srt_time_to_ms(Str(text))]
  /\ UNCHANGED <<otherVars, merging, doc, job, gui>>

\* _srt_time_to_ms(time_str) on any value
CodecDecode ==
  /\ codec.fn = "none"
  /\ \E x \in CodecInputs :
       codec' = [fn |-> "_srt_time_to_ms", arg |-> x, text |-> x.chars,
                 ret |-> _srt_time_to_ms(x)]
  /\ UNCHANGED <<otherVars, merging, doc, job, gui>>

NextCodec ==
  \/ CodecRoundTrip
  \/ CodecDecode

\* the timestamp codec alone
SpecCodec == Init /\ [][NextCodec]_vars

jobFrame == <<otherVars, merging, doc, codec, gui>>

\* "return False" after the given status messages: the finally block is next
ReturnFalse(j, messages) ==
  [j EXCEPT !.status = @ \o messages, !.ret = "False", !.pc = "cleanup"]

\* positions inside the try block of process_audio
InTry == {"input", "segment", "transcribe", "lengthen", "rename"}

\* process_audio is called: the paths are computed and os.makedirs succeeds
JobCall ==
  /\ job.pc = "idle"
  /\ \E kind \in {"url", "file", "missing"}, lengthen \in BOOLEAN,
        flags \in JobFlags, old \in OldOutputs :
       job' = [NoJob EXCEPT !.pc = "input", !.input_kind = kind,
                            !.lengthen_subtitles_flag = lengthen, !.flags = flags,
                            !.output = old, !.old_output = old]
  /\ UNCHANGED jobFrame

\* os.makedirs(output_dir, exist_ok=True) raises: it is outside the try block,
\* so the exception leaves process_audio
JobMakedirsRaises ==
  /\ job.pc = "idle"
  /\ \E old \in OldOutputs :
       job' = [NoJob EXCEPT !.pc = "raised", !.ret = "raised",
                            !.output = old, !.old_output = old]
  /\ UNCHANGED jobFrame

\* step 1, a URL: download_audio_from_url returns the path
JobDownload ==
  /\ job.pc = "input"
  /\ job.input_kind = "url"
  /\ job' = [job EXCEPT !.status = @ \o <<"Downloading audio from: ...",
                                          "Successfully downloaded audio to: ...">>,
                        !.downloaded = TRUE, !.is_downloaded = TRUE, !.pc = "segment"]
  /\ UNCHANGED jobFrame

\* step 1, a URL: download_audio_from_url returns None
JobDownloadFails ==
  /\ job.pc = "input"
  /\ job.input_kind = "url"
  /\ job' = ReturnFalse(job, <<"Downloading audio from: ...", "Error downloading audio: ...">>)
  /\ UNCHANGED jobFrame

\* step 1, an existing local file
JobLocalFile ==
  /\ job.pc = "input"
  /\ job.input_kind = "file"
  /\ job' = [job EXCEPT !.status = @ \o <<"Using local audio file: ...">>, !.pc = "segment"]
  /\ UNCHANGED jobFrame

\* step 1, neither a URL nor an existing file
JobInputMissing ==
  /\ job.pc = "input"
  /\ job.input_kind = "missing"
  /\ job' = ReturnFalse(job, <<"Error: Input file not found: ...">>)
  /\ UNCHANGED jobFrame

\* step 2: ffmpeg writes n segment files, glob finds them
JobSegment ==
  /\ job.pc = "segment"
  /\ \E n \in 0..MaxJobSegs :
       LET said == <<"Segmenting audio into 10-minute chunks...", "Audio segmentation complete.">>
       IN IF n = 0
          THEN job' = ReturnFalse(job, said \o <<"Error: No audio segments were created by ffmpeg.">>)
          ELSE job' = [job EXCEPT !.status = @ \o said,
                                  !.mp3 = 0..(n - 1),
                                  !.generated_segment_files = [x \in 1..n |-> x - 1],
                                  !.k = 1, !.pc = "transcribe"]
  /\ UNCHANGED jobFrame

\* step 2: subprocess.run raises (ffmpeg fails or is not installed)
JobSegmentFails ==
  /\ job.pc = "segment"
  /\ job' = ReturnFalse(job, <<"Segmenting audio into 10-minute chunks...",
                               "Error during segmentation: ...">>)
  /\ UNCHANGED jobFrame

\* a transcription loop that gives up on the remaining segments after a failure
JobTranscribeStopsOnFailure ==
  /\ job.pc = "transcribe"
  /\ job.k <= Len(job.generated_segment_files)
  /\ \E response \in JobResponses :
       LET n == job.generated_segment_files[job.k]
           srt_path == SegName(n)
           r == process_audio_segment(response)
       IN job' = [job EXCEPT
                    !.status = @ \o <<"Transcribing segment i/n: ...">>
                                 \o (IF r.written THEN <<>>
                                     ELSE <<"Error transcribing ... Skipping segment.">>),
                    !.srts = IF r.written THEN WriteFile(job.srts, srt_path, r.text) ELSE @,
                    !.txt = IF r.txt THEN @ \cup {n} ELSE @,
                    !.generated_segment_srt_files =
                       IF r.written THEN Append(@, srt_path) ELSE @,
                    !.transcribed = Append(@, r.written),
                    !.k = IF r.written THEN @ + 1 ELSE Len(job.generated_segment_files) + 1]
  /\ UNCHANGED jobFrame

\* step 3, one iteration: process_audio_segment on the next segment file
JobTranscribe ==
  /\ job.pc = "transcribe"
  /\ job.k <= Len(job.generated_segment_files)
  /\ \E response \in JobResponses :
       LET n == job.generated_segment_files[job.k]
           srt_path == SegName(n)
           r == process_audio_segment(response)
       IN job' = [job EXCEPT
                    !.status = @ \o <<"Transcribing segment i/n: ...">>
                                 \o (IF r.written THEN <<>>
                                     ELSE <<"Error transcribing ... Skipping segment.">>),
                    !.srts = IF r.written THEN WriteFile(job.srts, srt_path, r.text) ELSE @,
                    !.txt = IF r.txt THEN @ \cup {n} ELSE @,
                    !.generated_segment_srt_files =
                       IF r.written THEN Append(@, srt_path) ELSE @,
                    !.transcribed = Append(@, r.written),
                    !.k = @ + 1]
  /\ UNCHANGED jobFrame

\* step 4: no segment produced an SRT file
JobNoSrt ==
  /\ job.pc = "transcribe"
  /\ job.k > Len(job.generated_segment_files)
  /\ job.generated_segment_srt_files = <<>>
  /\ job' = ReturnFalse(job, <<"Error: No SRT files were generated from segments.">>)
  /\ UNCHANGED jobFrame

\* step 4: combine_srt_files writes the raw combined file and returns its path
JobCombine ==
  /\ job.pc = "transcribe"
  /\ job.k > Len(job.generated_segment_files)
  /\ job.generated_segment_srt_files # <<>>
  /\ job' = [job EXCEPT
               !.status = @ \o <<"Combining transcribed SRT segments (adjusting timestamps)...",
                                 "SRT segments combined successfully.">>,
               !.temp_raw = File(CombinedText(job.generated_segment_srt_files, job.srts)),
               !.pc = "lengthen"]
  /\ UNCHANGED jobFrame

\* step 4: combine_srt_files cannot open the output file and returns None
JobCombineFails ==
  /\ job.pc = "transcribe"
  /\ job.k > Len(job.generated_segment_files)
  /\ job.generated_segment_srt_files # <<>>
  /\ job' = ReturnFalse(job, <<"Combining transcribed SRT segments (adjusting timestamps)...",
                               "Error combining SRT files.">>)
  /\ UNCHANGED jobFrame

\* step 5 with lengthen_subtitles_flag off
JobSkipLengthen ==
  /\ job.pc = "lengthen"
  /\ ~job.lengthen_subtitles_flag
  /\ job' = [job EXCEPT !.final_srt_to_rename = "temp_raw", !.pc = "rename"]
  /\ UNCHANGED jobFrame

\* step 5: parse, merge, format and write the lengthened file; nothing is
\* written when parse_srt returns no entry
JobLengthen ==
  /\ job.pc = "lengthen"
  /\ job.lengthen_subtitles_flag
  /\ LET r == Lengthened(job.temp_raw.text)
     IN job' = [job EXCEPT
                  !.status = @ \o <<"Lengthening subtitles (merging short blocks)...">>
                               \o (IF r.written THEN <<"Subtitles lengthened.">>
                                   ELSE <<"Warning: Could not parse combined SRT for lengthening. Skipping lengthening.">>),
                  !.temp_len = IF r.written THEN File(r.text) ELSE @,
                  !.final_srt_to_rename = IF r.written THEN "temp_len" ELSE "temp_raw",
                  !.pc = "rename"]
  /\ UNCHANGED jobFrame

\* step 5: reading or writing raises, the raw combined file is used
JobLengthenFails ==
  /\ job.pc = "lengthen"
  /\ job.lengthen_subtitles_flag
  /\ job' = [job EXCEPT
               !.status = @ \o <<"Lengthening subtitles (merging short blocks)...",
                                 "Error lengthening subtitles: ... Using un-lengthened version.">>,
               !.final_srt_to_rename = "temp_raw",
               !.pc = "rename"]
  /\ UNCHANGED jobFrame

\* the messages of the except OSError handler of step 6
RenameErrorMessages ==
  <<"Saving final SRT to: ...", "Error saving final SRT file: ...",
    "Keeping intermediate SRT file: ...">>

\* step 6: remove an existing destination, rename the intermediate file to it
JobRename ==
  /\ job.pc = "rename"
  /\ job' =
       IF ~job[job.final_srt_to_rename].exists
       THEN ReturnFalse(job, <<"Saving final SRT to: ...",
                               "Error: Intermediate SRT file ... not found before final rename.">>)
       ELSE [job EXCEPT
               !.status = @ \o <<"Saving final SRT to: ...",
                                 "Successfully processed audio and saved SRT to: ...">>,
               !.output = job[job.final_srt_to_rename],
               ![job.final_srt_to_rename] = Absent,
               !.renamed_from = job.final_srt_to_rename,
               !.ret = "True", !.pc = "cleanup"]
  /\ UNCHANGED jobFrame

\* step 6: os.remove(output_srt_filepath) raises OSError
JobRemoveOldFails ==
  /\ job.pc = "rename"
  /\ job[job.final_srt_to_rename].exists
  /\ job.output.exists
  /\ job' = ReturnFalse(job, RenameErrorMessages)
  /\ UNCHANGED jobFrame

\* step 6: os.rename raises OSError, after an existing destination was removed
JobRenameFails ==
  /\ job.pc = "rename"
  /\ job[job.final_srt_to_rename].exists
  /\ job' = ReturnFalse([job EXCEPT !.output = Absent], RenameErrorMessages)
  /\ UNCHANGED jobFrame

\* an exception no inner handler catches is raised inside the try block
JobUnexpected ==
  /\ job.pc \in InTry
  /\ job' = ReturnFalse(job, <<"An critical error occurred during processing: ...">>)
  /\ UNCHANGED jobFrame

\* step 7, the finally block: delete what the flags ask for and both temporary
\* combined files; an os.remove that raises OSError leaves its file in place
JobCleanup ==
  /\ job.pc = "cleanup"
  /\ \E stuck \in SUBSET Removable :
       LET mp3_gone == IF job.flags.delete_segments_flag /\ "segment_mp3" \notin stuck
                       THEN Range(job.generated_segment_files) ELSE {}
           srt_gone == IF job.flags.delete_segment_srts_flag /\ "segment_srt" \notin stuck
                       THEN Range(job.generated_segment_srt_files) ELSE {}
           dl_gone == job.is_downloaded /\ job.flags.delete_temp_audio_flag /\ job.downloaded
       IN job' = [job EXCEPT
                    !.status = @ \o <<"Cleaning up intermediate files...">>
                                 \o (IF job.flags.delete_segments_flag
                                     THEN <<"Cleaned up n segment MP3 files.">> ELSE <<>>)
                                 \o (IF job.flags.delete_segment_srts_flag
                                     THEN <<"Cleaned up n segment SRT files.">> ELSE <<>>)
                                 \o (IF dl_gone THEN <<"Cleaned up downloaded audio file.">> ELSE <<>>)
                                 \o <<"Cleanup finished.">>,
                    !.mp3 = @ \ mp3_gone,
                    !.srts = [f \in DOMAIN @ \ srt_gone |-> @[f]],
                    !.downloaded = IF dl_gone THEN FALSE ELSE @,
                    !.temp_raw = IF "temp_raw" \in stuck THEN @ ELSE Absent,
                    !.temp_len = IF "temp_len" \in stuck THEN @ ELSE Absent,
                    !.pc = "returned"]
  /\ UNCHANGED jobFrame

NextJob ==
  \/ JobCall
  \/ JobMakedirsRaises
  \/ JobDownload
  \/ JobDownloadFails
  \/ JobLocalFile
  \/ JobInputMissing
  \/ JobSegment
  \/ JobSegmentFails
  \/ JobTranscribe
  \/ JobNoSrt
  \/ JobCombine
  \/ JobCombineFails
  \/ JobSkipLengthen
  \/ JobLengthen
  \/ JobLengthenFails
  \/ JobRename
  \/ JobRemoveOldFails
  \/ JobRenameFails
  \/ JobUnexpected
  \/ JobCleanup

\* process_audio alone
SpecJob == Init /\ [][NextJob]_vars

guiFrame == <<otherVars, merging, doc, codec, job>>

\* the lines start_processing_thread writes to the status box after clearing it
StartLines(n) == [p \in 1..6 |-> <<n, "main", p>>]

\* queue_status_update(message): status_queue.put(message)
queue_status_update(g, messages) ==
  [g EXCEPT !.status_queue = @ \o messages, !.enqueued = @ \o messages]

\* a worker thread that has not left run_processing
Alive(g) == {t \in 1..Len(g.threads) : g.threads[t].pc # "done"}

\* Start is clicked with a missing input, output or language: a message box,
\* and start_processing_thread returns before touching the button
ClickStartInvalid ==
  /\ gui.root /\ gui.start_button = "normal"
  /\ \E missing \in {"Input Missing", "Output Missing", "Language Missing"} :
       /\ gui.messagebox # missing
       /\ gui' = [gui EXCEPT !.messagebox = missing]
  /\ UNCHANGED guiFrame

\* start_processing_thread with Start left enabled
ClickStartKeepsButton ==
  /\ gui.root /\ gui.start_button = "normal"
  /\ Len(gui.threads) < MaxJobs
  /\ LET n == Len(gui.threads) + 1
     IN gui' = [gui EXCEPT !.status_text = StartLines(n),
                           !.threads = Append(@, [pc |-> "process", sent |-> 0,
                                                   success |-> "none"])]
  /\ UNCHANGED guiFrame

\* Start is clicked with valid fields: the button is disabled, the status box
\* is cleared and rewritten by update_status, the worker thread is started
ClickStart ==
  /\ gui.root /\ gui.start_button = "normal"
  /\ Len(gui.threads) < MaxJobs
  /\ LET n == Len(gui.threads) + 1
     IN gui' = [gui EXCEPT !.start_button = "disabled",
                           !.status_text = StartLines(n),
                           !.threads = Append(@, [pc |-> "process", sent |-> 0,
                                                   success |-> "none"])]
  /\ UNCHANGED guiFrame

\* process_audio calls status_callback, which is queue_status_update
WorkerStatus(t) ==
  /\ gui.threads[t].pc = "process"
  /\ gui.threads[t].sent < MaxStatus
  /\ gui' = [queue_status_update(gui, << <<t, "status", gui.threads[t].sent + 1>> >>)
               EXCEPT !.threads[t].sent = @ + 1]
  /\ UNCHANGED guiFrame

\* process_audio returns True or False, or raises
WorkerProcessed(t) ==
  /\ gui.threads[t].pc = "process"
  /\ \E success \in {"True", "False", "raised"} :
       gui' = [gui EXCEPT !.threads[t].success = success,
                          !.threads[t].pc = IF success = "raised" THEN "except"
                                            ELSE "final"]
  /\ UNCHANGED guiFrame

\* try: the final status message goes to the queue
WorkerFinalMessage(t) ==
  /\ gui.threads[t].pc = "final"
  /\ gui' = [queue_status_update(gui, << <<t, "final", gui.threads[t].success>> >>)
               EXCEPT !.threads[t].pc = "box"]
  /\ UNCHANGED guiFrame

\* try: root.after(0, messagebox...); without a window the call raises and
\* the except clause is next
WorkerSchedulesBox(t) ==
  /\ gui.threads[t].pc = "box"
  /\ gui' = IF gui.root
              THEN [gui EXCEPT !.after = Append(@, <<IF gui.threads[t].success = "True"
                                                       THEN "showinfo" ELSE "showerror", t>>),
                               !.threads[t].pc = "finally"]
              ELSE [gui EXCEPT !.threads[t].pc = "except"]
  /\ UNCHANGED guiFrame

\* except Exception: the error and the final status message go to the queue
\* and the message box is scheduled (which raises without a window)
WorkerExcept(t) ==
  /\ gui.threads[t].pc = "except"
  /\ gui' = [queue_status_update(gui, << <<t, "error", "critical">>,
                                         <<t, "final", "critical">> >>)
               EXCEPT !.after = IF gui.root THEN Append(@, <<"showerror", t>>) ELSE @,
                      !.threads[t].pc = "finally"]
  /\ UNCHANGED guiFrame

\* finally, with the re-enabling scheduled only after a success
WorkerFinallyOnSuccess(t) ==
  /\ gui.threads[t].pc = "finally"
  /\ gui' = [gui EXCEPT !.after = IF gui.root /\ gui.threads[t].success = "True"
                                    THEN Append(@, <<"enable", t>>) ELSE @,
                        !.threads[t].pc = "done"]
  /\ UNCHANGED guiFrame

\* finally: if the window exists the re-enabling of Start is scheduled on the
\* main thread; it is the last statement of run_processing
WorkerFinally(t) ==
  /\ gui.threads[t].pc = "finally"
  /\ gui' = [gui EXCEPT !.after = IF gui.root THEN Append(@, <<"enable", t>>) ELSE @,
                        !.threads[t].pc = "done"]
  /\ UNCHANGED guiFrame

\* a step of a worker thread after process_audio returned or raised
WorkerStep ==
  \E t \in 1..Len(gui.threads) :
    \/ WorkerFinalMessage(t)
    \/ WorkerSchedulesBox(t)
    \/ WorkerExcept(t)
    \/ WorkerFinally(t)

\* the main loop runs the oldest callback scheduled with root.after(0, ...)
RunAfter ==
  /\ gui.root /\ gui.after # <<>>
  /\ LET callback == Head(gui.after)
     IN gui' = IF callback[1] \in {"showinfo", "showerror"}
                 THEN [gui EXCEPT !.after = Tail(@), !.messagebox = callback[1]]
                 ELSE [gui EXCEPT !.after = Tail(@), !.start_button = "normal",
                                  !.reenabled = callback[2]]
  /\ UNCHANGED guiFrame

\* check_status_queue keeping only the newest message of a poll
CheckStatusQueueKeepsNewest ==
  /\ gui.root /\ gui.status_queue # <<>>
  /\ LET newest == <<gui.status_queue[Len(gui.status_queue)]>>
     IN gui' = [gui EXCEPT !.status_text = @ \o newest,
                           !.appended = @ \o newest,
                           !.status_queue = <<>>]
  /\ UNCHANGED guiFrame

\* check_status_queue: every queued message is taken with get_nowait and
\* appended by update_status until the queue is empty; the next poll is
\* scheduled (a poll of an empty queue changes nothing)
CheckStatusQueue ==
  /\ gui.root /\ gui.status_queue # <<>>
  /\ gui' = [gui EXCEPT !.status_text = @ \o gui.status_queue,
                        !.appended = @ \o gui.status_queue,
                        !.status_queue = <<>>]
  /\ UNCHANGED guiFrame

\* the window is closed: the callbacks still scheduled are dropped
CloseWindow ==
  /\ gui.root
  /\ gui' = [gui EXCEPT !.root = FALSE, !.after = <<>>]
  /\ UNCHANGED guiFrame

NextGui ==
  \/ ClickStartInvalid
  \/ ClickStart
  \/ \E t \in 1..Len(gui.threads) : WorkerStatus(t)
  \/ \E t \in 1..Len(gui.threads) : WorkerProcessed(t)
  \/ WorkerStep
  \/ RunAfter
  \/ CheckStatusQueue
  \/ CloseWindow

\* AudioProcessorApp alone
SpecGui == Init /\ [][NextGui]_vars

\* the worker threads are scheduled and the main loop runs its callbacks
FairSpecGui ==
  SpecGui /\ WF_vars(WorkerStep) /\ WF_vars(RunAfter) /\ WF_vars(CheckStatusQueue)

NextMerge ==
  \/ MergeEnter
  \/ MergeSeed
  \/ MergeFold
  \/ MergeFlush
  \/ MergeReturn
  \/ MergeAgain

\* merge_subtitles alone, one loop iteration per step
SpecMerge == Init /\ [][NextMerge]_vars

-----------------------------------------------------------------------------
(* Properties *)

Ms(time_str) == srt_time_to_ms(time_str)

\* this step is one pass of the segment loop
SegmentStep == pc = "loop" /\ i <= Len(srt_files) /\ i' = i + 1

\* this step combined a segment that parsed to at least one entry
CombinedStep == SegmentStep /\ srt_files[i] \in DOMAIN fs /\ entries' # <<>>

\* the blocks this step appended to the output
Written == SubSeq(outfile', Len(outfile) + 1, Len(outfile'))

\* the entries of es that survive a shift by off
Surviving(es, off) ==
  SelectSeq(es, LAMBDA e : Ms(e.start) + off < Ms(e.end) + off)

\* blocks are the entries es shifted by off, in order
ShiftedBy(blocks, es, off) ==
  /\ Len(blocks) = Len(es)
  /\ \A j \in 1..Len(es) :
       /\ Ms(blocks[j].start) = Ms(es[j].start) + off
       /\ Ms(blocks[j].end) = Ms(es[j].end) + off

RECURSIVE MaxEnd(_)
MaxEnd(blocks) ==
  IF blocks = <<>> THEN 0 ELSE Max(Ms(blocks[1].end), MaxEnd(Tail(blocks)))

\* C1: for a segment that parses to at least one entry, the offset added to its
\* entries is last_segment_end_time_ms as held when the segment begins if the
\* first entry starts below 1000 ms, and 0 (entries unshifted) if it starts at
\* 1000 ms or later.
C1_ResetOffset ==
  [][CombinedStep =>
       LET off == IF Ms(entries'[1].start) < 1000
                  THEN last_segment_end_time_ms ELSE 0
       IN /\ time_offset_ms' = off
          /\ SubSeq(outfile', 1, Len(outfile)) = outfile
          /\ ShiftedBy(Written, Surviving(entries', off), off)]_vars

\* a segment starting at 999 ms was shifted by a non-zero offset, after a segment
\* starting at exactly 1000 ms was written unshifted behind an earlier segment
C1_Witness ==
  /\ pc = "loop"
  /\ Len(processed) = 3
  /\ Len(entries) = 1
  /\ Ms(entries[1].start) = 999
  /\ time_offset_ms > 0
  /\ Len(outfile) = 3
  /\ Ms(outfile[2].start) = 1000
  /\ Ms(outfile[3].start) = 999 + time_offset_ms

\* C2: after a segment that parsed to at least one entry but from which every
\* entry was discarded, last_segment_end_time_ms holds the value it had before
\* the segment; otherwise it is the maximum shifted end time of the entries
\* emitted for the segment.
C2_LastEndKeptWhenAllDiscarded ==
  [][CombinedStep =>
       IF Written = <<>>
       THEN last_segment_end_time_ms' = last_segment_end_time_ms
       ELSE last_segment_end_time_ms' = MaxEnd(Written)]_vars

\* C3: adjacent entries of the combined output have non-decreasing start times.
C3_Monotonic ==
  \A j \in 1..(Len(outfile) - 1) : Ms(outfile[j].start) <= Ms(outfile[j + 1].start)

\* C4: when a reset is detected, the offset applied is at least the end time of
\* every entry already emitted for the earlier segments.
C4_ResetOffsetCoversEarlier ==
  [][(CombinedStep /\ Ms(entries'[1].start) < 1000) =>
       \A j \in 1..Len(outfile) : Ms(outfile[j].end) <= time_offset_ms']_vars

\* C5: a segment whose file is missing or parses to zero entries writes nothing,
\* leaves last_segment_end_time_ms and the global index unchanged, and the loop
\* goes on: every listed segment has been reached when the function returns.
C5_SkippedSegment ==
  /\ [][(SegmentStep /\ (srt_files[i] \notin DOMAIN fs
                          \/ parse_srt(fs[srt_files[i]]) = <<>>)) =>
          /\ outfile' = outfile
          /\ last_segment_end_time_ms' = last_segment_end_time_ms
          /\ overall_subtitle_index' = overall_subtitle_index
          /\ pc' = "loop"]_vars
  /\ [](result = "output_filepath" => processed = srt_files)

\* a missing file was skipped between two combined segments, and the third
\* segment took its offset from the first
C5_Witness ==
  /\ pc = "done"
  /\ Len(srt_files) = 3
  /\ srt_files[2] \notin DOMAIN fs
  /\ Len(outfile) = 2
  /\ time_offset_ms = 4000
  /\ Ms(outfile[2].start) = 4999
  /\ overall_subtitle_index = 3

\* C6: every entry written has shifted start strictly below shifted end, and a
\* discarded entry consumes no global index: the entries written for the last
\* combined segment are exactly its surviving entries, shifted, and the next
\* index is one more than the number of entries written.
C6_WrittenValid ==
  /\ \A j \in 1..Len(outfile) : Ms(outfile[j].start) < Ms(outfile[j].end)
  /\ outfile_exists => overall_subtitle_index = Len(outfile) + 1
  /\ entries # <<>> =>
       LET kept == Surviving(entries, time_offset_ms)
       IN /\ Len(kept) <= Len(outfile)
          /\ ShiftedBy(SubSeq(outfile, Len(outfile) - Len(kept) + 1, Len(outfile)),
                       kept, time_offset_ms)

\* a segment of two entries, the first one inverted, wrote only its second entry
C6_Witness ==
  /\ pc = "loop"
  /\ Len(entries) = 2
  /\ Ms(entries[1].start) >= Ms(entries[1].end)
  /\ Ms(entries[2].start) < Ms(entries[2].end)
  /\ Len(outfile) = 1
  /\ overall_subtitle_index = 2

ValidInterval(e) == Ms(e.start) < Ms(e.end)

\* C7: no stage lets an entry with start >= end through: not parse_srt, not
\* merge_subtitles, not format_srt, not the combiner.
C7_NoInvalidInterval ==
  /\ \A j \in 1..Len(entries) : ValidInterval(entries[j])
  /\ call.fn \in {"parse_srt", "merge_subtitles"} =>
       \A j \in 1..Len(call.ret) : ValidInterval(call.ret[j])
  /\ \A j \in 1..Len(call.writes) : ValidInterval(call.writes[j])
  /\ \A j \in 1..Len(outfile) : ValidInterval(outfile[j])

\* C8: the indices written by the combiner and by format_srt are 1..N in output
\* order, whatever the index fields of the input and whatever was dropped.
C8_IndicesContiguous ==
  /\ \A j \in 1..Len(outfile) : outfile[j].index = j
  /\ call.fn = "format_srt" =>
       /\ Len(call.writes) = Len(call.arg)
       /\ \A j \in 1..Len(call.writes) : call.writes[j].index = j

\* an entry and a whole segment were dropped and two entries written
C8_Witness ==
  /\ pc = "done"
  /\ result = "output_filepath"
  /\ Len(srt_files) = 3
  /\ srt_files[2] \notin DOMAIN fs
  /\ Len(outfile) = 2
  /\ Len(entries) = 2
  /\ ValidInterval(entries[1])
  /\ ~ValidInterval(entries[2])
  /\ entries[1].index = 1
  /\ outfile[2].index = 2

HasOrdinal(f) == ~get_segment_number(f).inf

Ordinal(f) == get_segment_number(f).n

\* a goes before b: by ordinal, files without one last, ties by position
Before(a, pa, b, pb) ==
  \/ HasOrdinal(a) /\ ~HasOrdinal(b)
  \/ HasOrdinal(a) /\ HasOrdinal(b) /\ Ordinal(a) < Ordinal(b)
  \/ /\ HasOrdinal(a) = HasOrdinal(b)
     /\ HasOrdinal(a) => Ordinal(a) = Ordinal(b)
     /\ pa < pb

\* the one order the claim allows for the files of the list given
InOrdinalOrder(out, given) ==
  /\ Len(out) = Len(given)
  /\ \E perm \in Permutations(1..Len(given)) :
       /\ \A j \in 1..Len(given) : out[j] = given[perm[j]]
       /\ \A j, k \in 1..Len(given) :
            j < k => Before(given[perm[j]], perm[j], given[perm[k]], perm[k])

\* C9: the segments are processed in ascending order of the ordinal in the file
\* name, whatever the order given; files without an ordinal come last and keep
\* their relative order.
C9_OrdinalOrder ==
  pc = "done" /\ result = "output_filepath" =>
    /\ InOrdinalOrder(processed, input_files)
    /\ processed = srt_files

\* two files without an ordinal were given before a file with one
C9_Witness ==
  /\ pc = "done"
  /\ result = "output_filepath"
  /\ Len(input_files) = 3
  /\ ~HasOrdinal(input_files[1])
  /\ ~HasOrdinal(input_files[2])
  /\ input_files[1] # input_files[2]
  /\ HasOrdinal(input_files[3])
  /\ processed = <<input_files[3], input_files[1], input_files[2]>>

\* C10: given an empty list, the combiner yields an empty combined output and no
\* failure value.
C10_EmptyListNotAnError ==
  (pc = "done" /\ call.fn = "combine_srt_files" /\ srt_files = <<>>) =>
    /\ result # "None"
    /\ outfile_exists
    /\ outfile = <<>>

-----------------------------------------------------------------------------
(* merge_subtitles *)

\* the loop of MergeSeed/MergeFold/MergeFlush/MergeReturn returns what the
\* recursive merge_subtitles computes
MergeStepsAgree ==
  (merging.pc = "done" /\ merging.pass = 1)
    => merging.merged_entries = merge_subtitles(merging.input, merging.min_chars)

\* the loop handles an entry after the first one
LaterEntryStep ==
  /\ merging.pc = "loop"
  /\ merging.current_block # None
  /\ merging'.k = merging.k + 1

\* the entry handled by the step went into the block that was open
FoldedIn ==
  /\ merging'.merged_entries = merging.merged_entries
  /\ merging'.current_block.start = merging.current_block.start
  /\ merging'.current_block.text =
       merging.current_block.text \o merging.entries[merging.k].text

\* the entry handled by the step closed the open block and started the next one
StartedBlock ==
  /\ Len(merging'.merged_entries) = Len(merging.merged_entries) + 1
  /\ merging'.current_block.start = merging.entries[merging.k].start
  /\ merging'.current_block.text = merging.entries[merging.k].text

\* C11: every entry after the first is folded into the current block exactly
\* when the text accumulated in the block before adding it is shorter than
\* min_chars, whatever the length of the incoming text and of the result;
\* otherwise it starts a new block.
C11_FoldIffBlockShort ==
  [][LaterEntryStep =>
       /\ FoldedIn <=> TextLen(merging.current_block.text) < merging.min_chars
       /\ StartedBlock <=> TextLen(merging.current_block.text) >= merging.min_chars]_vars

\* a one-character block took a 45-character entry with min_chars = 2, and a
\* later entry then started the next block
C11_Witness ==
  /\ merging.pass = 1
  /\ merging.min_chars = 2
  /\ merging.k = 4
  /\ TextLen(merging.entries[1].text) = 1
  /\ TextLen(merging.entries[2].text) = DefaultMinChars
  /\ Len(merging.merged_entries) = 1
  /\ merging.merged_entries[1].text = merging.entries[1].text \o merging.entries[2].text

\* merge_subtitles(entries, 45) has returned for three entries of 2, 5 and 45 or
\* more characters
C12_Case ==
  /\ merging.pc = "done"
  /\ merging.pass = 1
  /\ merging.min_chars = DefaultMinChars
  /\ Len(merging.input) = 3
  /\ TextLen(merging.input[1].text) = 2
  /\ TextLen(merging.input[2].text) = 5
  /\ TextLen(merging.input[3].text) >= DefaultMinChars

\* C12 as stated: with min_chars = 45 and texts of 2, 5 and at least 45
\* characters the output has exactly two blocks, the first two entries merged
\* (ending where the second entry ends) and the third entry as its own block.
C12_TwoBlocks ==
  C12_Case =>
    /\ Len(merging.merged_entries) = 2
    /\ merging.merged_entries[1] =
         [start |-> merging.input[1].start, end |-> merging.input[2].end,
          text |-> merging.input[1].text \o merging.input[2].text]
    /\ merging.merged_entries[2] =
         [start |-> merging.input[3].start, end |-> merging.input[3].end,
          text |-> merging.input[3].text]

\* C12 amended: with min_chars = 45 and texts of 2, 5 and at least 45
\* characters the output is one block holding all three texts, from the start
\* of the first entry to the end of the third: the block is 7 characters long
\* when the third entry arrives, so the third entry is folded too.
C12_OneBlock ==
  C12_Case =>
    merging.merged_entries =
      <<[start |-> merging.input[1].start, end |-> merging.input[3].end,
         text |-> merging.input[1].text \o merging.input[2].text
                    \o merging.input[3].text]>>

C12_Witness == C12_Case /\ Len(merging.merged_entries) = 1

\* merge_subtitles has returned for the list first handed to it
MergeReturned == merging.pc = "done" /\ merging.pass = 1

\* the places where a list of n entries can be cut into contiguous runs: a cut
\* at c ends a run with entry c
Cuts(n) == SUBSET (1..(n - 1))

\* the last entry of the k-th run
RunHi(n, cuts, k) ==
  LET ends == cuts \cup {n}
  IN CHOOSE x \in ends : Cardinality({y \in ends : y < x}) = k - 1

\* the first entry of the k-th run
RunLo(n, cuts, k) == IF k = 1 THEN 1 ELSE RunHi(n, cuts, k - 1) + 1

\* the texts of entries lo..hi, one after the other
RECURSIVE ConcatTexts(_, _, _)
ConcatTexts(es, lo, hi) ==
  IF lo > hi THEN <<>> ELSE es[lo].text \o ConcatTexts(es, lo + 1, hi)

\* the blocks hold, in order, the texts of the runs the cuts make of the list
TextsOfRuns(blocks, es, cuts) ==
  /\ Len(blocks) = Cardinality(cuts) + 1
  /\ \A k \in 1..Len(blocks) :
       blocks[k].text = ConcatTexts(es, RunLo(Len(es), cuts, k), RunHi(Len(es), cuts, k))

\* every block runs from the start of its run's first entry to the end of its
\* run's last entry
TimesOfRuns(blocks, es, cuts) ==
  \A k \in 1..Len(blocks) :
    /\ blocks[k].start = es[RunLo(Len(es), cuts, k)].start
    /\ blocks[k].end = es[RunHi(Len(es), cuts, k)].end

\* C13: every output block starts where the first entry folded into it starts
\* and ends where the last entry folded into it ends; a block closed because it
\* reached min_chars does not take its end from the entry that follows it.
C13_BlockSpansItsRun ==
  (MergeReturned /\ merging.input # <<>>)
    => \E cuts \in Cuts(Len(merging.input)) :
         /\ TextsOfRuns(merging.merged_entries, merging.input, cuts)
         /\ TimesOfRuns(merging.merged_entries, merging.input, cuts)

\* C14: merging the output of merge_subtitles again with the same min_chars
\* returns the same blocks (same start, end and text).
C14_Idempotent ==
  (merging.pc = "done" /\ merging.pass = 2) => merging.merged_entries = merging.first

\* C15: the output partitions the input into contiguous runs: no more blocks
\* than entries, every entry's text in exactly one block, and the output
\* texts concatenated in order equal the input texts concatenated in order.
C15_Partition ==
  MergeReturned =>
    /\ Len(merging.merged_entries) <= Len(merging.input)
    /\ ConcatTexts(merging.merged_entries, 1, Len(merging.merged_entries))
         = ConcatTexts(merging.input, 1, Len(merging.input))
    /\ IF merging.input = <<>> THEN merging.merged_entries = <<>>
       ELSE \E cuts \in Cuts(Len(merging.input)) :
              TextsOfRuns(merging.merged_entries, merging.input, cuts)

\* three entries with text came out as two blocks, the first holding two of them
C15_Witness ==
  /\ MergeReturned
  /\ Len(merging.input) = 3
  /\ \A j \in 1..3 : merging.input[j].text # <<>>
  /\ Len(merging.merged_entries) = 2
  /\ merging.merged_entries[1].text = merging.input[1].text \o merging.input[2].text

\* text ends with tail
EndsWith(text, tail) ==
  /\ Len(tail) <= Len(text)
  /\ SubSeq(text, Len(text) - Len(tail) + 1, Len(text)) = tail

\* C16: for a non-empty input the first block starts at the first entry's
\* start, and the last block ends at the last entry's end and holds the last
\* entry's text: the block open when the input ends is always flushed.
C16_Coverage ==
  (MergeReturned /\ merging.input # <<>>) =>
    /\ merging.merged_entries # <<>>
    /\ merging.merged_entries[1].start = merging.input[1].start
    /\ LET last == merging.merged_entries[Len(merging.merged_entries)]
           entry == merging.input[Len(merging.input)]
       IN /\ last.end = entry.end
          /\ EndsWith(last.text, entry.text)

\* the last block was still short when the input ended, and it holds the last
\* two of three entries
C16_Witness ==
  /\ MergeReturned
  /\ Len(merging.input) = 3
  /\ Len(merging.merged_entries) = 2
  /\ merging.merged_entries[2].start = merging.input[2].start
  /\ merging.merged_entries[2].text = merging.input[2].text \o merging.input[3].text
  /\ merging.input[3].text # <<>>
  /\ TextLen(merging.merged_entries[2].text) < merging.min_chars

-----------------------------------------------------------------------------
(* format_srt *)

\* C17: format_srt skips every entry whose text is empty after trimming: it
\* writes no block for it and spends no index on it.
C17_EmptyTextSkipped ==
  call.fn = "format_srt" =>
    /\ \A j \in 1..Len(call.writes) : call.writes[j].text # <<>>
    /\ Len(call.writes)
         = Cardinality({j \in 1..Len(call.arg) : Strip(call.arg[j].text) # <<>>})

-----------------------------------------------------------------------------
(* parse_srt *)

\* the entry a well-formed block stands for
EntryOf(b) == [index |-> b.index, start |-> b.start, end |-> b.end, text |-> Strip(b.text)]

\* the entries of the well-formed blocks, in document order
RECURSIVE WellFormedEntries(_)
WellFormedEntries(blocks) ==
  IF blocks = <<>> THEN <<>>
  ELSE (IF blocks[1].kind = "ok" THEN <<EntryOf(blocks[1])>> ELSE <<>>)
         \o WellFormedEntries(Tail(blocks))

KindsOf(blocks) == {blocks[j].kind : j \in 1..Len(blocks)}

\* C18: parse_srt never emits an entry whose trimmed text is empty: a block
\* with an index and a timestamp line but no text is dropped, and the blocks
\* after it are still parsed as their own entries.
C18_NoEmptyText ==
  (doc.fn = "parse_srt" /\ KindsOf(doc.blocks) \subseteq {"ok", "notext"})
    => /\ \A j \in 1..Len(doc.ret) : doc.ret[j].text # <<>>
       /\ doc.ret = WellFormedEntries(doc.blocks)

\* C19: one malformed block (a bad index line or a bad timestamp pair) among
\* well-formed ones is skipped without aborting the parse: every well-formed
\* block before and after it is emitted as its own entry with its own start,
\* end and text, and nothing of the malformed block shows up in any entry.
C19_MalformedSkipped ==
  (/\ doc.fn = "parse_srt"
   /\ KindsOf(doc.blocks) \subseteq {"ok", "badindex", "badts"}
   /\ Cardinality({j \in 1..Len(doc.blocks) : doc.blocks[j].kind # "ok"}) = 1)
    => doc.ret = WellFormedEntries(doc.blocks)

\* C20: for entries that meet the data model (start before end, non-empty
\* trimmed text without a blank line, canonical timestamps with hours of two
\* or more digits) parse_srt(format_srt(E)) has as many entries as E, with
\* the same start, end and text in the same order.
C20_RoundTrip ==
  doc.fn = "round_trip"
    => /\ Len(doc.ret) = Len(doc.blocks)
       /\ \A j \in 1..Len(doc.blocks) :
            /\ doc.ret[j].start = doc.blocks[j].start
            /\ doc.ret[j].end = doc.blocks[j].end
            /\ doc.ret[j].text = doc.blocks[j].text

-----------------------------------------------------------------------------
(* timestamp codec *)

\* C21: for every integer m with 0 <= m < 86,400,000 decoding the encoding of
\* m gives m back: _srt_time_to_ms(_ms_to_srt_time(m)) = m.
C21_CodecRoundTrip ==
  codec.fn = "round_trip" =>
    /\ 0 <= codec.arg /\ codec.arg < 86400000
    /\ ~codec.ret.raised
    /\ codec.ret.value = codec.arg

\* the last millisecond of the day went through 23:59:59,999 and came back
C21_Witness ==
  /\ codec.fn = "round_trip"
  /\ codec.arg = 86399999
  /\ codec.text = <<D(2), D(3), COLON, D(5), D(9), COLON, D(5), D(9), COMMA, D(9), D(9), D(9)>>
  /\ codec.ret.value = 86399999

\* the value is a string of three colon fields, the third of two comma fields,
\* and all four fields are numerals
IsParseableTime(x) ==
  /\ x.type = "str"
  /\ LET parts == Split(x.chars, COLON)
     IN /\ Len(parts) = 3
        /\ IntOk(parts[1]) /\ IntOk(parts[2])
        /\ LET s_ms == Split(parts[3], COMMA)
           IN Len(s_ms) = 2 /\ IntOk(s_ms[1]) /\ IntOk(s_ms[2])

\* C22: _srt_time_to_ms never raises, and for every input that is not a
\* parseable HH:MM:SS,mmm timestamp (wrong number of fields, non-numeric
\* field, missing millisecond part, not a string) it returns 0.
C22_UnparseableIsZero ==
  codec.fn = "_srt_time_to_ms" =>
    /\ ~codec.ret.raised
    /\ ~IsParseableTime(codec.arg) => codec.ret.value = 0

-----------------------------------------------------------------------------
(* process_audio *)

\* the SRT files of the segments whose transcription produced one, in segment order
RECURSIVE Contributed(_, _)
Contributed(transcribed, j) ==
  IF j > Len(transcribed) THEN <<>>
  ELSE (IF transcribed[j] THEN <<SegName(j - 1)>> ELSE <<>>) \o Contributed(transcribed, j + 1)

Said(message) == \E p \in 1..Len(job.status) : job.status[p] = message

\* C23: a segment for which process_audio_segment returns None is a missing
\* contribution: every segment is still transcribed, the segments that
\* produced a transcript are the ones combined, and the job fails with
\* "No SRT files were generated" only when no segment produced a transcript.
C23_FailedSegmentSkipped ==
  /\ (job.pc \in {"lengthen", "rename"} \/ Said("SRT segments combined successfully."))
       => /\ Len(job.transcribed) = Len(job.generated_segment_files)
          /\ job.generated_segment_srt_files = Contributed(job.transcribed, 1)
          /\ \E j \in 1..Len(job.transcribed) : job.transcribed[j]
          /\ \A f \in Range(job.generated_segment_srt_files) :
               job.pc # "returned" => f \in DOMAIN job.srts
  /\ Said("Error: No SRT files were generated from segments.")
       => /\ Len(job.transcribed) = Len(job.generated_segment_files)
          /\ \A j \in 1..Len(job.transcribed) : ~job.transcribed[j]
  /\ job.pc \in {"transcribe", "lengthen", "rename"}
       => (Said("Error transcribing ... Skipping segment.")
             <=> \E j \in 1..Len(job.transcribed) : ~job.transcribed[j])

\* the first segment failed, the second was transcribed and combined
C23_Witness ==
  /\ job.pc = "lengthen"
  /\ job.transcribed = <<FALSE, TRUE>>
  /\ job.generated_segment_srt_files = <<SegName(1)>>
  /\ parse_srt(job.temp_raw.text) # <<>>

\* C24: process_audio returns False whenever no usable entry survives the
\* pipeline: it never returns True after writing a final subtitle file that
\* holds no entry.
C24_NoEmptySuccess ==
  (job.pc = "returned" /\ job.ret = "True")
    => /\ job.output.exists
       /\ parse_srt(job.output.text) # <<>>

\* C25: when the final rename fails with an OSError, the intermediate file
\* that was to be renamed still exists after process_audio has returned False.
C25_IntermediateKept ==
  (job.pc = "returned" /\ Said("Keeping intermediate SRT file: ..."))
    => /\ job.ret = "False"
       /\ job[job.final_srt_to_rename].exists

\* C26: on every path of process_audio the status callback receives
\* "Cleaning up intermediate files..." and, as the last message of the call,
\* "Cleanup finished."; after a successful return the final output file exists
\* and neither temporary combined file remains.
C26_CleanupAlways ==
  (job.pc \in {"returned", "raised"})
    => /\ Said("Cleaning up intermediate files...")
       /\ job.status # <<>> /\ job.status[Len(job.status)] = "Cleanup finished."
       /\ job.ret = "True"
            => job.output.exists /\ ~job.temp_raw.exists /\ ~job.temp_len.exists

\* C27: whenever process_audio returns False, a file that was at
\* output_srt_filepath before the call is still there with its previous content.
C27_OutputKeptOnFailure ==
  (job.pc = "returned" /\ job.ret = "False" /\ job.old_output.exists)
    => job.output = job.old_output

-----------------------------------------------------------------------------
(* AudioProcessorApp *)

\* C28: at most one worker thread is inside run_processing at any time, and
\* while one is, the Start button is disabled: it was disabled before the
\* thread was started and is enabled again only after run_processing ended.
C28_OneWorker ==
  /\ Cardinality(Alive(gui)) <= 1
  /\ Alive(gui) # {} => gui.start_button = "disabled"

\* a second job runs after the first has ended and Start was enabled again
C28_Witness ==
  /\ Len(gui.threads) = 2
  /\ gui.threads[1].pc = "done"
  /\ gui.threads[2].pc = "finally"
  /\ gui.start_button = "disabled"

\* process_audio of worker t has returned or raised
Returned(t) == t <= Len(gui.threads) /\ gui.threads[t].success # "none"

\* worker t has left run_processing
Ended(t) == t <= Len(gui.threads) /\ gui.threads[t].pc = "done"

\* the number of final status messages worker t has put into the queue
FinalsOf(t) ==
  Cardinality({p \in 1..Len(gui.enqueued) :
                 gui.enqueued[p][1] = t /\ gui.enqueued[p][2] = "final"})

\* C29: once process_audio of a started job has returned True or False or has
\* raised, then, unless the window is closed, the job's re-enabling of Start
\* eventually runs and the worker has put exactly one final status message
\* into the queue; while the window exists a job never puts a second one.
C29_JobEnds ==
  \A t \in 1..MaxJobs :
    /\ Returned(t) ~> \/ ~gui.root
                      \/ /\ Ended(t)
                         /\ gui.reenabled >= t
                         /\ FinalsOf(t) = 1
    /\ [](gui.root /\ t <= Len(gui.threads) => FinalsOf(t) <= 1)

\* two jobs have ended, one by an exception and one by a False return, each
\* with one final message, and Start is enabled again
C29_Witness ==
  /\ gui.root
  /\ Len(gui.threads) = 2
  /\ gui.threads[1].pc = "done" /\ gui.threads[1].success = "raised"
  /\ gui.threads[2].pc = "done" /\ gui.threads[2].success = "False"
  /\ gui.reenabled = 2 /\ gui.start_button = "normal"
  /\ FinalsOf(1) = 1 /\ FinalsOf(2) = 1

\* a step taken by a worker thread
WorkerMoved ==
  /\ Len(gui'.threads) = Len(gui.threads)
  /\ gui'.threads # gui.threads

\* C30: the messages put by queue_status_update are, in order, those already
\* appended to the status log followed by those still in the queue, so each
\* is appended at most once and in the order of the puts; the appends are
\* made by check_status_queue on the main thread, and no step of a worker
\* thread changes the status text.
C30_ThroughQueueOnly ==
  /\ [](gui.appended \o gui.status_queue = gui.enqueued)
  /\ [][gui'.appended # gui.appended
          => /\ gui'.threads = gui.threads
             /\ gui'.status_queue = <<>>
             /\ gui'.status_text = gui.status_text \o gui.status_queue]_vars
  /\ [][WorkerMoved => gui'.status_text = gui.status_text]_vars

\* messages of a worker were appended by one poll and a later one is queued
C30_Witness ==
  /\ Len(gui.appended) >= 2
  /\ gui.status_queue # <<>>
  /\ Len(gui.status_text) = 6 + Len(gui.appended)

====
